---------------------------- MODULE Spec2Model ----------------------------
(***************************************************************************)
(* RigelEngine: the resource loader (src/loader/resource_loader.cpp) and   *)
(* the map tile grid (src/data/map.cpp) as state machines.                 *)
(*                                                                         *)
(* The loader part: a ResourceLoader constructed over a game directory,    *)
(* the directory's unpacked files and replacement images (which the user   *)
(* may change between calls), and a caller that issues one loader call at  *)
(* a time and takes its result.  File names are sequences of characters,   *)
(* so that the name patterns, the case-insensitive archive lookup and the  *)
(* derived replacement names are computed and not assumed.  Files are      *)
(* byte sequences; a file is held in the state as a (seed, len) pair that  *)
(* Bytes expands.                                                          *)
(*                                                                         *)
(* The map part: a Map and a caller of setTileAt / tileAt.                 *)
(***************************************************************************)
EXTENDS Integers, Sequences, FiniteSets, TLC

VARIABLES
  loader,        \* the ResourceLoader's members
  disk,          \* unpacked files at <gamePath>/<name>: name -> file or NoFile
  replacements,  \* files at <gamePath>/asset_replacements/<name>
  last,          \* the loader call the caller awaits the result of, or NoCall
  map,           \* the Map's members
  mapLast        \* the most recent call on the Map and its result

loaderVars == <<loader, disk, replacements, last>>
mapVars == <<map, mapLast>>
vars == <<loader, disk, replacements, last, map, mapLast>>

---------------------------------------------------------------------------
(* Bounds of the model.  The game's traits (data/game_traits.hpp) are      *)
(* scaled down: the tile counts, the tile size and the view port.          *)

NumSolidTiles == 2
NumMaskedTiles == 2
TileBytes == 4
ViewPortWidthPx == 2
ViewPortHeightPx == 2
NumGameSounds == 2
MaxUnpacked == 1
MapWidth == 2
MapHeight == 1

(* Program constants.                                                      *)
PaletteColors256 == 256
PaletteColors16 == 16
BytesPerColor == 3
PixelsPerEgaByte == 8
EgaPlanes == 4
AttributeBytes == 2
MaskedAttributeSkipWords == 4
NumIntroSounds == 7
FirstIntroFileNumber == 3
NumLayers == 2

NumTilesTotal == NumSolidTiles + NumMaskedTiles
AttributeBytesTotal ==
  NumSolidTiles * AttributeBytes
    + NumMaskedTiles * (AttributeBytes + AttributeBytes * MaskedAttributeSkipWords)
MaskedTileBytes == TileBytes + TileBytes \div EgaPlanes
FULL_SCREEN_IMAGE_DATA_SIZE ==
  (ViewPortWidthPx * ViewPortHeightPx) \div (PixelsPerEgaByte \div EgaPlanes)
PaletteBytes256 == PaletteColors256 * BytesPerColor
PaletteBytes16 == PaletteColors16 * BytesPerColor

---------------------------------------------------------------------------
(* Characters and names.                                                   *)

LowerLetters ==
  <<"a","b","c","d","e","f","g","h","i","j","k","l","m",
    "n","o","p","q","r","s","t","u","v","w","x","y","z">>
UpperLetters ==
  <<"A","B","C","D","E","F","G","H","I","J","K","L","M",
    "N","O","P","Q","R","S","T","U","V","W","X","Y","Z">>
DigitChars == <<"0","1","2","3","4","5","6","7","8","9">>

Range(s) == {s[i] : i \in DOMAIN s}
IsDigit(c) == c \in Range(DigitChars)
IsLetter(c) == c \in Range(LowerLetters) \cup Range(UpperLetters)

UpperOf ==
  [c \in Range(LowerLetters) |->
     UpperLetters[CHOOSE i \in DOMAIN LowerLetters : LowerLetters[i] = c]]
ToUpperChar(c) == IF c \in DOMAIN UpperOf THEN UpperOf[c] ELSE c
ToUpper(name) == [i \in DOMAIN name |-> ToUpperChar(name[i])]

\* std::to_string of a non-negative int: its decimal digits
RECURSIVE DecimalString(_)
DecimalString(n) ==
  IF n < 10 THEN <<DigitChars[n + 1]>>
  ELSE DecimalString(n \div 10) \o <<DigitChars[(n % 10) + 1]>>

DotMni == <<".","M","N","I">>
NameCZone3 == <<"C","Z","O","N","E","3">> \o DotMni
NameCZone3Lower == <<"c","z","o","n","e","3",".","m","n","i">>
NameDrop12 == <<"D","R","O","P","1","2">> \o DotMni
NameDrop12Lower == <<"d","r","o","p","1","2",".","m","n","i">>
ANTI_PIRACY_SCREEN_FILENAME == <<"L","C","R">> \o DotMni
NameMovie == <<"N","U","K","E","M","2",".","F","1">>
NameMusic == <<"D","U","K","E","I","I","A",".","I","M","F">>
NameScript == <<"T","E","X","T">> \o DotMni
NameAbsent == <<"N","O","N","E">> \o DotMni
NameTileset3Png == <<"t","i","l","e","s","e","t","3",".","p","n","g">>
NameBackdrop12Png == <<"b","a","c","k","d","r","o","p","1","2",".","p","n","g">>

\* the sound ids: the game's sounds 0 .. NumGameSounds-1, then the intro sounds
SoundIds == 0 .. (NumGameSounds + NumIntroSounds - 1)
IntroSoundIds == NumGameSounds .. (NumGameSounds + NumIntroSounds - 1)
IntroFileName(k) ==
  <<"I","N","T","R","O">> \o DecimalString(FirstIntroFileNumber + k) \o DotMni
IntroFileNames == {IntroFileName(k) : k \in 0 .. (NumIntroSounds - 1)}
DigitizedSoundName(id) == <<"S","B","_">> \o DecimalString(id + 1) \o DotMni

\* the names the caller passes and the user unpacks
Names ==
  { NameCZone3, NameCZone3Lower, NameDrop12, ANTI_PIRACY_SCREEN_FILENAME,
    IntroFileName(0), NameMovie, NameMusic, NameScript, NameAbsent,
    DigitizedSoundName(0), DigitizedSoundName(1),
    DigitizedSoundName(NumGameSounds) }
ReplacementNames == {NameTileset3Png, NameBackdrop12Png}

---------------------------------------------------------------------------
(* Files.                                                                  *)

\* a number that tells the names apart, to give each file its own bytes
CharCode(c) ==
  LET all == UpperLetters \o LowerLetters \o DigitChars
  IN IF c \in Range(all) THEN CHOOSE i \in DOMAIN all : all[i] = c ELSE 0
RECURSIVE NameCode(_)
NameCode(name) ==
  IF name = <<>> THEN 0
  ELSE (NameCode(SubSeq(name, 1, Len(name) - 1))
          + Len(name) * CharCode(name[Len(name)])) % 89

NoFile == [seed |-> 0, len |-> 0, none |-> TRUE]
FileOf(seed, len) == [seed |-> seed, len |-> len, none |-> FALSE]
Bytes(f) == [i \in 1 .. f.len |-> (f.seed * 37 + i * 11) % 256]

CZoneFileLen ==
  AttributeBytesTotal + NumSolidTiles * TileBytes + NumMaskedTiles * MaskedTileBytes
LcrFileLen == PaletteBytes256 + ViewPortWidthPx * ViewPortHeightPx

\* what the archive holds for a name (when it holds the name)
ArchivedFile(upperName) ==
  CASE upperName = NameCZone3 -> FileOf(NameCode(upperName), CZoneFileLen)
    [] upperName = NameDrop12 -> FileOf(NameCode(upperName), 2 * TileBytes)
    [] upperName = ANTI_PIRACY_SCREEN_FILENAME ->
         FileOf(NameCode(upperName), LcrFileLen)
    [] OTHER -> FileOf(NameCode(upperName), 3)

\* the files the user may unpack under a name: a well-formed one and, for the
\* formats this file decodes itself, files that are too short
UnpackedFiles(name) ==
  CASE ToUpper(name) = NameCZone3 /\ name = NameCZone3 ->
         { FileOf(100 + NameCode(name), CZoneFileLen),
           FileOf(101 + NameCode(name), AttributeBytesTotal - 1) }
    [] ToUpper(name) = NameCZone3 /\ name # NameCZone3 ->
         { FileOf(100 + NameCode(name), CZoneFileLen) }
    [] name = ANTI_PIRACY_SCREEN_FILENAME ->
         { FileOf(100 + NameCode(name), LcrFileLen),
           FileOf(101 + NameCode(name), LcrFileLen - 1),
           FileOf(102 + NameCode(name), PaletteBytes256 - 1) }
    [] name = NameDrop12 ->
         { FileOf(100 + NameCode(name), 2 * TileBytes),
           FileOf(101 + NameCode(name), TileBytes + 1) }
    [] OTHER -> { FileOf(100 + NameCode(name), 3) }

FullArchiveNames ==
  { NameCZone3, NameDrop12, ANTI_PIRACY_SCREEN_FILENAME, NameMovie, NameMusic,
    NameScript, DigitizedSoundName(0), DigitizedSoundName(NumGameSounds) }
    \cup IntroFileNames
SparseArchiveNames == {NameCZone3, NameMusic} \cup IntroFileNames

MakeArchive(names) == [n \in names |-> ArchivedFile(n)]
Archives == {MakeArchive(FullArchiveNames), MakeArchive(SparseArchiveNames)}

---------------------------------------------------------------------------
(* Values: what a call returns or throws.                                  *)

Err(e) == [kind |-> "error", err |-> e]
BytesVal(b) == [kind |-> "bytes", bytes |-> b]
BoolVal(b) == [kind |-> "bool", value |-> b]
\* the process ends abnormally (an outcome of undefined behaviour)
Crash == [kind |-> "crash"]
IsError(v) == v.kind = "error"

\* the values a read past the end of a buffer may yield
GarbageBytes == {0, 255}

\* a decoder outside this file, applied to its input
Decoded(what, input) == [kind |-> what, input |-> input]
\* a decoder applied to the result of file(): the error passes through
Decode(what, f) == IF IsError(f) THEN f ELSE Decoded(what, f.bytes)

---------------------------------------------------------------------------
(* The collaborators of the loader.                                        *)

\* CMPFilePackage: a case-insensitive name -> bytes lookup
PackageHasFile(package, name) == ToUpper(name) \in DOMAIN package
PackageFile(package, name) ==
  IF PackageHasFile(package, name)
    THEN BytesVal(Bytes(package[ToUpper(name)]))
    ELSE Err("NotFoundError")

\* fs::exists(mGamePath / name)
Exists(d, name) == name \in DOMAIN d /\ ~d[name].none
\* loadFile(mGamePath / name)
loadFile(d, name) ==
  IF Exists(d, name) THEN BytesVal(Bytes(d[name])) ELSE Err("FileError")

\* loadPng(path): the image, or nothing when the file is missing or is no image
PngImage(replacementName) ==
  [kind |-> "image", form |-> "png", file |-> replacementName]
loadPng(r, replacementName) ==
  IF replacementName \in DOMAIN r /\ r[replacementName] = "valid"
    THEN [present |-> TRUE, image |-> PngImage(replacementName)]
    ELSE [present |-> FALSE, image |-> PngImage(<<>>)]

\* loadTiledImage: consecutive tiles, a FormatError unless the data is whole tiles
BytesPerTile(type) == IF type = "Masked" THEN MaskedTileBytes ELSE TileBytes
loadTiledImage(data, type) ==
  IF Len(data) % BytesPerTile(type) # 0
    THEN Err("FormatError")
    ELSE [kind |-> "image", form |-> "tiled", type |-> type, data |-> data]

\* a 6-bit colour channel scaled to 8 bits
Scale6bit(v) == (v * 255 + 31) \div 63
load6bitPalette256(data) ==
  [k \in 1 .. PaletteColors256 |->
     << Scale6bit(data[BytesPerColor * (k - 1) + 1]),
        Scale6bit(data[BytesPerColor * (k - 1) + 2]),
        Scale6bit(data[BytesPerColor * (k - 1) + 3]) >>]
load6bitPalette16(data) ==
  IF Len(data) < PaletteBytes16
    THEN Err("FormatError")
    ELSE [kind |-> "palette", input |-> SubSeq(data, 1, PaletteBytes16)]

\* AudioPackage::loadAdlibSound
loadAdlibSound(package, id) ==
  [kind |-> "audio", source |-> "adlib", id |-> id, package |-> package]

---------------------------------------------------------------------------
(* ResourceLoader.                                                         *)

\* no probe of asset_replacements
NoneConsulted == {}

\* hasFile asking the archive alone
hasFileArchiveOnly(l, d, name) == PackageHasFile(l.mFilePackage, name)

hasFile(l, d, name) ==
  Exists(d, name) \/ PackageHasFile(l.mFilePackage, name)

\* file() with the archive asked first
fileArchiveFirst(l, d, name) ==
  IF PackageHasFile(l.mFilePackage, name)
    THEN PackageFile(l.mFilePackage, name)
    ELSE IF Exists(d, name) THEN loadFile(d, name) ELSE Err("NotFoundError")

file(l, d, name) ==
  IF Exists(d, name)
    THEN loadFile(d, name)
    ELSE PackageFile(l.mFilePackage, name)

fileAsText(l, d, name) == Decode("text", file(l, d, name))

loadScriptBundle(l, d, fileName) ==
  LET text == fileAsText(l, d, fileName)
  IN IF IsError(text) THEN text ELSE Decoded("scripts", text)

loadMusic(l, d, name) == Decode("song", file(l, d, name))

\* loadMovie through file()
loadMovieResolved(l, d, name) == Decode("movie", file(l, d, name))

loadMovie(l, d, name) == Decode("movie", loadFile(d, name))

loadSoundByName(l, d, name) == Decode("voc", file(l, d, name))

\* the lambda of loadSound(id): the intro sound's file, or <<>> (nullptr)
introSoundFilenameFor(soundId) ==
  IF soundId \in IntroSoundIds
    THEN IntroFileName(soundId - NumGameSounds)
    ELSE <<>>

\* loadSound(id) with the digitized file probed before the intro table
loadSoundDigitizedFirst(l, d, id) ==
  IF hasFile(l, d, DigitizedSoundName(id))
    THEN loadSoundByName(l, d, DigitizedSoundName(id))
    ELSE IF introSoundFilenameFor(id) # <<>>
      THEN loadSoundByName(l, d, introSoundFilenameFor(id))
      ELSE loadAdlibSound(l.mAdlibSoundsPackage, id)

loadSound(l, d, id) ==
  LET introSoundFilename == introSoundFilenameFor(id)
      digitizedSoundFileName == DigitizedSoundName(id)
  IN IF introSoundFilename # <<>>
       THEN loadSoundByName(l, d, introSoundFilename)
       ELSE IF hasFile(l, d, digitizedSoundFileName)
         THEN loadSoundByName(l, d, digitizedSoundFileName)
         ELSE loadAdlibSound(l.mAdlibSoundsPackage, id)

---------------------------------------------------------------------------
(* The replacement images.                                                 *)

\* an optional image that is absent
NoImage == [present |-> FALSE, image |-> PngImage(<<>>), consulted |-> NoneConsulted]
\* loadPng of a file under ASSET_REPLACEMENTS_PATH, and the file it looked at
LoadReplacement(r, replacementName) ==
  [ present |-> loadPng(r, replacementName).present,
    image |-> loadPng(r, replacementName).image,
    consulted |-> {replacementName} ]

\* std::regex "^CZONE([0-9A-Z])\.MNI$", icase: the sub-match, or <<>>
TilesetNumber(name) ==
  IF /\ Len(name) = 10
     /\ ToUpper(SubSeq(name, 1, 5)) = <<"C","Z","O","N","E">>
     /\ (IsDigit(name[6]) \/ IsLetter(name[6]))
     /\ ToUpper(SubSeq(name, 7, 10)) = DotMni
    THEN <<name[6]>>
    ELSE <<>>

\* std::regex "^DROP([0-9]+)\.MNI$", icase: the sub-match, or <<>>
BackdropNumber(name) ==
  IF /\ Len(name) >= 9
     /\ ToUpper(SubSeq(name, 1, 4)) = <<"D","R","O","P">>
     /\ \A i \in 5 .. (Len(name) - 4) : IsDigit(name[i])
     /\ ToUpper(SubSeq(name, Len(name) - 3, Len(name))) = DotMni
    THEN SubSeq(name, 5, Len(name) - 4)
    ELSE <<>>

loadReplacementTilesetIfPresent(r, name) ==
  LET number == TilesetNumber(name)
      replacementName ==
        <<"t","i","l","e","s","e","t">> \o number \o <<".","p","n","g">>
  IN IF number = <<>> THEN NoImage ELSE LoadReplacement(r, replacementName)

---------------------------------------------------------------------------
(* The image loaders.  A result is [out, consulted]: what the call returns *)
(* or throws, and the replacement files it looked at.                      *)

Result(out, consulted) == [out |-> out, consulted |-> consulted]

loadTiledFullscreenImage(l, d, name) ==
  LET data == file(l, d, name)
  IN IF IsError(data) THEN data ELSE loadTiledImage(data.bytes, "Unmasked")

\* loadBackdrop that throws on a replacement file that is no image
loadBackdropStrict(l, d, r, name) ==
  LET number == BackdropNumber(name)
      replacementName ==
        <<"b","a","c","k","d","r","o","p">> \o number \o <<".","p","n","g">>
      replacementImage ==
        IF number = <<>> THEN NoImage ELSE LoadReplacement(r, replacementName)
  IN IF replacementImage.present
       THEN Result(replacementImage.image, replacementImage.consulted)
       ELSE IF /\ number # <<>> /\ replacementName \in DOMAIN r
               /\ r[replacementName] = "malformed"
         THEN Result(Err("FormatError"), replacementImage.consulted)
         ELSE Result(loadTiledFullscreenImage(l, d, name), replacementImage.consulted)

loadBackdrop(l, d, r, name) ==
  LET number == BackdropNumber(name)
      replacementName ==
        <<"b","a","c","k","d","r","o","p">> \o number \o <<".","p","n","g">>
      replacementImage ==
        IF number = <<>> THEN NoImage ELSE LoadReplacement(r, replacementName)
  IN IF replacementImage.present
       THEN Result(replacementImage.image, replacementImage.consulted)
       ELSE Result(loadTiledFullscreenImage(l, d, name), replacementImage.consulted)

\* a byte of the buffer, or what lies behind it
ByteAt(data, offset, garbage) ==
  IF offset < Len(data) THEN data[offset + 1] ELSE garbage
\* LeStreamReader::readU16 at an offset
ReadU16(data, offset, garbage) ==
  ByteAt(data, offset, garbage) + 256 * ByteAt(data, offset + 1, garbage)

\* the attribute loop without the skip behind a masked tile's attribute
RECURSIVE ReadAttributesNoSkip(_, _, _, _, _)
ReadAttributesNoSkip(data, garbage, index, position, attributes) ==
  IF index >= NumTilesTotal
    THEN attributes
    ELSE ReadAttributesNoSkip(
           data, garbage, index + 1, position + AttributeBytes,
           Append(attributes, ReadU16(data, position, garbage)))

\* the attribute loop of loadCZone
RECURSIVE ReadAttributes(_, _, _, _, _)
ReadAttributes(data, garbage, index, position, attributes) ==
  IF index >= NumTilesTotal
    THEN attributes
    ELSE ReadAttributes(
           data, garbage, index + 1,
           position + AttributeBytes
             + (IF index >= NumSolidTiles
                  THEN AttributeBytes * MaskedAttributeSkipWords ELSE 0),
           Append(attributes, ReadU16(data, position, garbage)))

TileSet(image, attributes) ==
  [kind |-> "tileset", image |-> image, attributes |-> attributes]

\* the rest of loadCZone with no look at the replacement images
CZoneTileSetNoReplacement(r, name, data, attributes) ==
  LET tilesBegin == AttributeBytesTotal
      maskedTilesBegin == tilesBegin + NumSolidTiles * TileBytes
      solidTilesImage ==
        loadTiledImage(SubSeq(data, tilesBegin + 1, maskedTilesBegin), "Unmasked")
      maskedTilesImage ==
        loadTiledImage(SubSeq(data, maskedTilesBegin + 1, Len(data)), "Masked")
  IN IF Len(data) < maskedTilesBegin
       THEN {Result(Crash, NoneConsulted)}
       ELSE IF IsError(maskedTilesImage)
         THEN {Result(maskedTilesImage, NoneConsulted)}
         ELSE {Result(TileSet([kind |-> "image", form |-> "atlas",
                               solid |-> solidTilesImage,
                               masked |-> maskedTilesImage], attributes),
                      NoneConsulted)}

\* the rest of loadCZone once the attributes are read: the replacement image,
\* or the solid and the masked tiles of the data
CZoneTileSet(r, name, data, attributes) ==
  LET replacementImage == loadReplacementTilesetIfPresent(r, name)
      tilesBegin == AttributeBytesTotal
      maskedTilesBegin == tilesBegin + NumSolidTiles * TileBytes
      solidTilesImage ==
        loadTiledImage(SubSeq(data, tilesBegin + 1, maskedTilesBegin), "Unmasked")
      maskedTilesImage ==
        loadTiledImage(SubSeq(data, maskedTilesBegin + 1, Len(data)), "Masked")
      fullImage ==
        [kind |-> "image", form |-> "atlas",
         solid |-> solidTilesImage, masked |-> maskedTilesImage]
  IN IF replacementImage.present
       THEN {Result(TileSet(replacementImage.image, attributes),
                    replacementImage.consulted)}
       ELSE IF Len(data) < maskedTilesBegin
         \* iterators past the end of the buffer: undefined
         THEN { Result(Crash, replacementImage.consulted),
                Result(Err("FormatError"), replacementImage.consulted),
                Result(TileSet([kind |-> "image", form |-> "garbage"], attributes),
                       replacementImage.consulted) }
         ELSE IF IsError(maskedTilesImage)
           THEN {Result(maskedTilesImage, replacementImage.consulted)}
           ELSE {Result(TileSet(fullImage, attributes), replacementImage.consulted)}

\* loadCZone with its data taken from the archive alone
loadCZoneFromArchive(l, d, r, name) ==
  LET data == PackageFile(l.mFilePackage, name)
  IN IF IsError(data)
       THEN {Result(data, NoneConsulted)}
       ELSE CZoneTileSet(r, name, data.bytes,
              ReadAttributes(data.bytes, 0, 0, 0, <<>>))

\* every outcome of loadCZone(name).  A buffer shorter than the attribute
\* table is read past its end: the call crashes, or goes on with what it read
loadCZone(l, d, r, name) ==
  LET data == file(l, d, name)
  IN IF IsError(data)
       THEN {Result(data, NoneConsulted)}
       ELSE IF Len(data.bytes) < AttributeBytesTotal
         THEN {Result(Crash, NoneConsulted)} \cup
              UNION { CZoneTileSet(r, name, data.bytes,
                        ReadAttributes(data.bytes, g, 0, 0, <<>>))
                      : g \in GarbageBytes }
         ELSE CZoneTileSet(r, name, data.bytes,
                ReadAttributes(data.bytes, 0, 0, 0, <<>>))

\* decodeSimplePlanarEgaBuffer over the first FULL_SCREEN_IMAGE_DATA_SIZE bytes
\* with the palette behind them
loadStandaloneFullscreenImage(l, d, name) ==
  LET data == file(l, d, name)
      palette ==
        load6bitPalette16(
          SubSeq(data.bytes, FULL_SCREEN_IMAGE_DATA_SIZE + 1, Len(data.bytes)))
  IN IF IsError(data)
       THEN {data}
       ELSE IF Len(data.bytes) < FULL_SCREEN_IMAGE_DATA_SIZE
         THEN {Crash, Err("FormatError")}
         ELSE IF IsError(palette)
           THEN {palette}
           ELSE {[ kind |-> "image", form |-> "planar",
                   width |-> ViewPortWidthPx, height |-> ViewPortHeightPx,
                   palette |-> palette,
                   data |-> SubSeq(data.bytes, 1, FULL_SCREEN_IMAGE_DATA_SIZE) ]}

Image(pixels, width, height) ==
  [kind |-> "image", form |-> "pixels",
   width |-> width, height |-> height, pixels |-> pixels]

loadAntiPiracyImage(l, d) ==
  LET data == file(l, d, ANTI_PIRACY_SCREEN_FILENAME)
      iImageStart == PaletteColors256 * BytesPerColor
      palette == load6bitPalette256(SubSeq(data.bytes, 1, iImageStart))
      pixels ==
        [i \in 1 .. (Len(data.bytes) - iImageStart) |->
           palette[data.bytes[iImageStart + i] + 1]]
  IN IF IsError(data)
       THEN {data}
       ELSE IF Len(data.bytes) < iImageStart
         \* the palette and the pixel loop run past the end of the buffer: the
         \* loop never meets end(data)
         THEN {Crash}
         ELSE {Image(pixels, ViewPortWidthPx, ViewPortHeightPx)}

\* load6bitPalette16 of what lies behind the first FULL_SCREEN_IMAGE_DATA_SIZE bytes
loadPaletteFromFullScreenImage(l, d, imageName) ==
  LET data == file(l, d, imageName)
  IN IF IsError(data)
       THEN {data}
       ELSE IF Len(data.bytes) < FULL_SCREEN_IMAGE_DATA_SIZE
         THEN {Crash, Err("FormatError")}
         ELSE {load6bitPalette16(SubSeq(data.bytes,
                 FULL_SCREEN_IMAGE_DATA_SIZE + 1, Len(data.bytes)))}

---------------------------------------------------------------------------
(* The caller of the loader.                                               *)

Call(op, name, id) == [op |-> op, name |-> name, id |-> id]
NoCall ==
  [call |-> Call("none", <<>>, 0), out |-> [kind |-> "none"],
   consulted |-> NoneConsulted]

\* the names the typed entry points are called with
ImageNames ==
  {NameCZone3, NameCZone3Lower, NameDrop12, NameDrop12Lower, NameAbsent}
FullscreenNames == {NameDrop12, ANTI_PIRACY_SCREEN_FILENAME, NameScript, NameAbsent}
StreamNames == {NameMovie, NameMusic, NameAbsent}
SoundNames == {IntroFileName(0), DigitizedSoundName(0), NameAbsent}
TextNames == {NameScript, NameAbsent}

Plain(outs) == {Result(out, NoneConsulted) : out \in outs}

\* every result the call can have in the given state
Outcomes(l, d, r, call) ==
  CASE call.op = "file" -> Plain({file(l, d, call.name)})
    [] call.op = "hasFile" -> Plain({BoolVal(hasFile(l, d, call.name))})
    [] call.op = "fileAsText" -> Plain({fileAsText(l, d, call.name)})
    [] call.op = "loadCZone" -> loadCZone(l, d, r, call.name)
    [] call.op = "loadBackdrop" -> {loadBackdrop(l, d, r, call.name)}
    [] call.op = "loadTiledFullscreenImage" ->
         Plain({loadTiledFullscreenImage(l, d, call.name)})
    [] call.op = "loadStandaloneFullscreenImage" ->
         Plain(loadStandaloneFullscreenImage(l, d, call.name))
    [] call.op = "loadPaletteFromFullScreenImage" ->
         Plain(loadPaletteFromFullScreenImage(l, d, call.name))
    [] call.op = "loadAntiPiracyImage" -> Plain(loadAntiPiracyImage(l, d))
    [] call.op = "loadMovie" -> Plain({loadMovie(l, d, call.name)})
    [] call.op = "loadMusic" -> Plain({loadMusic(l, d, call.name)})
    [] call.op = "loadSound" -> Plain({loadSound(l, d, call.id)})
    [] call.op = "loadSoundByName" -> Plain({loadSoundByName(l, d, call.name)})
    [] call.op = "loadScriptBundle" -> Plain({loadScriptBundle(l, d, call.name)})

\* the caller issues a call and holds its result; every member function of
\* the loader is const: the loader is as it was
Issue(call) ==
  /\ \E res \in Outcomes(loader, disk, replacements, call) :
       last' = [call |-> call, out |-> res.out, consulted |-> res.consulted]
  /\ UNCHANGED <<loader, disk, replacements, map, mapLast>>

Idle == last = NoCall

File == Idle /\ \E name \in Names : Issue(Call("file", name, 0))
HasFile == Idle /\ \E name \in Names : Issue(Call("hasFile", name, 0))
FileAsText == Idle /\ \E name \in TextNames : Issue(Call("fileAsText", name, 0))
LoadCZone == Idle /\ \E name \in ImageNames : Issue(Call("loadCZone", name, 0))
LoadBackdrop ==
  Idle /\ \E name \in ImageNames : Issue(Call("loadBackdrop", name, 0))
LoadTiledFullscreenImage ==
  Idle /\ \E name \in FullscreenNames :
            Issue(Call("loadTiledFullscreenImage", name, 0))
LoadStandaloneFullscreenImage ==
  Idle /\ \E name \in FullscreenNames :
            Issue(Call("loadStandaloneFullscreenImage", name, 0))
LoadPaletteFromFullScreenImage ==
  Idle /\ \E name \in FullscreenNames :
            Issue(Call("loadPaletteFromFullScreenImage", name, 0))
LoadAntiPiracyImage == Idle /\ Issue(Call("loadAntiPiracyImage", <<>>, 0))
LoadMovie == Idle /\ \E name \in StreamNames : Issue(Call("loadMovie", name, 0))
LoadMusic == Idle /\ \E name \in StreamNames : Issue(Call("loadMusic", name, 0))
LoadSound == Idle /\ \E id \in SoundIds : Issue(Call("loadSound", <<>>, id))
LoadSoundByName ==
  Idle /\ \E name \in SoundNames : Issue(Call("loadSoundByName", name, 0))
LoadScriptBundle ==
  Idle /\ \E name \in TextNames : Issue(Call("loadScriptBundle", name, 0))

\* the caller issues the call it just made once more
CallAgain == ~Idle /\ Issue(last.call)

\* the caller takes the result
Return ==
  /\ ~Idle
  /\ last' = NoCall
  /\ UNCHANGED <<loader, disk, replacements, map, mapLast>>

---------------------------------------------------------------------------
(* The user, between two calls: unpacked files and replacement images come *)
(* and go.                                                                 *)

Unpacked(d) == {name \in DOMAIN d : ~d[name].none}

Unpack ==
  /\ Idle
  /\ \E name \in Names : \E f \in UnpackedFiles(name) :
       /\ Cardinality(Unpacked(disk) \ {name}) < MaxUnpacked
       /\ disk[name] # f
       /\ disk' = [disk EXCEPT ![name] = f]
  /\ UNCHANGED <<loader, replacements, last, map, mapLast>>

Delete ==
  /\ Idle
  /\ \E name \in Unpacked(disk) : disk' = [disk EXCEPT ![name] = NoFile]
  /\ UNCHANGED <<loader, replacements, last, map, mapLast>>

PutReplacement ==
  /\ Idle
  /\ \E name \in ReplacementNames : \E content \in {"valid", "malformed"} :
       /\ replacements[name] # content
       /\ replacements' = [replacements EXCEPT ![name] = content]
  /\ UNCHANGED <<loader, disk, last, map, mapLast>>

RemoveReplacement ==
  /\ Idle
  /\ \E name \in ReplacementNames :
       /\ replacements[name] # "absent"
       /\ replacements' = [replacements EXCEPT ![name] = "absent"]
  /\ UNCHANGED <<loader, disk, last, map, mapLast>>

---------------------------------------------------------------------------
(* The Map.                                                                *)

SizeTBits == 16
\* static_cast<size_t> of an int
ToSizeT(v) == v % (2 ^ SizeTBits)

\* Map::Map
NewMap(widthInTiles, heightInTiles) ==
  [ mLayers |-> [layer \in 1 .. NumLayers |->
                   [i \in 1 .. (widthInTiles * heightInTiles) |-> 0]],
    mWidthInTiles |-> ToSizeT(widthInTiles),
    mHeightInTiles |-> ToSizeT(heightInTiles) ]

\* the cell tileRefAt refers to, or the exception it throws
tileRefAt(m, layerS, xS, yS) ==
  LET layer == ToSizeT(layerS)
      x == ToSizeT(xS)
      y == ToSizeT(yS)
  IN IF layer >= Len(m.mLayers)
       THEN [ok |-> FALSE, what |-> "Layer index out of bounds", layer |-> 0, cell |-> 0]
       ELSE IF x >= m.mWidthInTiles
         THEN [ok |-> FALSE, what |-> "X coord out of bounds", layer |-> 0, cell |-> 0]
         ELSE IF y >= m.mHeightInTiles
           THEN [ok |-> FALSE, what |-> "Y coord out of bounds", layer |-> 0, cell |-> 0]
           ELSE [ok |-> TRUE, what |-> "", layer |-> layer,
                 cell |-> x + y * m.mWidthInTiles]

\* the value tileAt returns (ok), or the exception
tileAt(m, layer, x, y) ==
  LET ref == tileRefAt(m, layer, x, y)
  IN IF ref.ok
       THEN [ok |-> TRUE, what |-> "", value |-> m.mLayers[ref.layer + 1][ref.cell + 1]]
       ELSE [ok |-> FALSE, what |-> ref.what, value |-> 0]

\* setTileAt without the check of the index
setTileAtUnchecked(m, layer, x, y, index) ==
  LET ref == tileRefAt(m, layer, x, y)
  IN IF ~ref.ok
       THEN [ok |-> FALSE, what |-> ref.what, map |-> m]
       ELSE [ok |-> TRUE, what |-> "",
             map |-> [m EXCEPT !.mLayers[ref.layer + 1][ref.cell + 1] = index]]

\* the map after setTileAt, and whether it returned (ok) or threw
setTileAt(m, layer, x, y, index) ==
  LET ref == tileRefAt(m, layer, x, y)
  IN IF index >= NumTilesTotal
       THEN [ok |-> FALSE, what |-> "Tile index too large for tile set", map |-> m]
       ELSE IF ~ref.ok
         THEN [ok |-> FALSE, what |-> ref.what, map |-> m]
         ELSE [ok |-> TRUE, what |-> "",
               map |-> [m EXCEPT !.mLayers[ref.layer + 1][ref.cell + 1] = index]]

MapCall(op, layer, x, y, index, ok, what, value) ==
  [op |-> op, layer |-> layer, x |-> x, y |-> y, index |-> index,
   ok |-> ok, what |-> what, value |-> value]
NoMapCall == MapCall("none", 0, 0, 0, 0, TRUE, "", 0)
Constructed == MapCall("Map", 0, 0, 0, 0, TRUE, "", 0)

\* the arguments the caller passes: in range, and just outside it
LayerArgs == -1 .. NumLayers
XArgs == {-1, 0, map.mWidthInTiles - 1, map.mWidthInTiles}
YArgs == {-1, 0, map.mHeightInTiles - 1, map.mHeightInTiles}
IndexArgs == {0, NumTilesTotal - 1, NumTilesTotal, NumTilesTotal + 1}

MapIdle == mapLast.op \in {"none", "Map"}

SetTileAt ==
  /\ MapIdle
  /\ \E layer \in LayerArgs, x \in XArgs, y \in YArgs, index \in IndexArgs :
       LET res == setTileAt(map, layer, x, y, index)
       IN /\ map' = res.map
          /\ mapLast' = MapCall("setTileAt", layer, x, y, index, res.ok, res.what, 0)
  /\ UNCHANGED loaderVars

TileAt ==
  /\ MapIdle
  /\ \E layer \in LayerArgs, x \in XArgs, y \in YArgs :
       LET res == tileAt(map, layer, x, y)
       IN mapLast' = MapCall("tileAt", layer, x, y, 0, res.ok, res.what, res.value)
  /\ UNCHANGED <<map, loader, disk, replacements, last>>

MapReturn ==
  /\ ~MapIdle
  /\ mapLast' = NoMapCall
  /\ UNCHANGED <<map, loader, disk, replacements, last>>

---------------------------------------------------------------------------
(* The specifications.                                                     *)

\* the AdLib package the constructor builds from the archive
AdlibPackage == [dict |-> "AUDIOHED.MNI", data |-> "AUDIOT.MNI"]

\* the loader after construction over an archive; nothing is unpacked yet
InitLoader(archives) ==
  /\ \E archive \in archives :
       loader = [ mGamePath |-> "game", mFilePackage |-> archive,
                  mAdlibSoundsPackage |-> AdlibPackage ]
  /\ disk = [name \in Names |-> NoFile]
  /\ replacements = [name \in ReplacementNames |-> "absent"]
  /\ last = NoCall

\* the map after construction
InitMapOf(widths, heights) ==
  /\ \E widthInTiles \in widths, heightInTiles \in heights :
       map = NewMap(widthInTiles, heightInTiles)
  /\ mapLast = Constructed

Init == InitLoader(Archives) /\ InitMapOf({MapWidth}, {MapHeight})
InitMap ==
  /\ InitLoader({MakeArchive(FullArchiveNames)})
  /\ InitMapOf(0 .. MapWidth, 0 .. MapHeight)

Next ==
  \/ File \/ HasFile \/ FileAsText
  \/ LoadCZone \/ LoadBackdrop
  \/ LoadTiledFullscreenImage \/ LoadStandaloneFullscreenImage
  \/ LoadPaletteFromFullScreenImage \/ LoadAntiPiracyImage
  \/ LoadMovie \/ LoadMusic \/ LoadSound \/ LoadSoundByName \/ LoadScriptBundle
  \/ CallAgain \/ Return
  \/ Unpack \/ Delete \/ PutReplacement \/ RemoveReplacement

NextMap == SetTileAt \/ TileAt \/ MapReturn

\* the loader, its directory and its caller
Spec == Init /\ [][Next]_vars
\* the map and its caller
SpecMap == InitMap /\ [][NextMap]_vars

---------------------------------------------------------------------------
(* What the claims speak of, said without the loader's own functions.      *)

\* an unpacked file is present at <gamePath>/<name>
OnDisk(name) == name \in Names /\ disk[name] # NoFile
DiskBytes(name) == Bytes(disk[name])
\* the archive holds an entry of that name (names match without case)
ArchiveEntries(name) ==
  LET upper == ToUpper(name)
  IN {e \in DOMAIN loader.mFilePackage : ToUpper(e) = upper}
InArchive(name) == ArchiveEntries(name) # {}
ArchiveBytes(name) ==
  Bytes(loader.mFilePackage[CHOOSE e \in ArchiveEntries(name) : TRUE])
\* the byte resolution: the unpacked override, else the archive entry
Resolved(name) ==
  IF OnDisk(name) THEN BytesVal(DiskBytes(name))
  ELSE IF InArchive(name) THEN BytesVal(ArchiveBytes(name))
  ELSE Err("NotFoundError")

Called(op) == last.call.op = op

---------------------------------------------------------------------------
(* C1: file(name) returns the unpacked file's bytes unmodified whenever    *)
(* the unpacked file exists (also when the archive holds an entry of the   *)
(* same name), the archive entry's bytes when only the archive holds the   *)
(* name, and fails with a not-found error when neither exists.             *)
C1_FileResolution ==
  Called("file") =>
    LET name == last.call.name
    IN /\ OnDisk(name) => last.out = BytesVal(DiskBytes(name))
       /\ ~OnDisk(name) /\ InArchive(name) =>
            last.out = BytesVal(ArchiveBytes(name))
       /\ ~OnDisk(name) /\ ~InArchive(name) =>
            last.out = Err("NotFoundError")

\* file() has returned an override's bytes for a name the archive holds too,
\* with other bytes
C1_Witness ==
  /\ Called("file")
  /\ OnDisk(last.call.name) /\ InArchive(last.call.name)
  /\ DiskBytes(last.call.name) # ArchiveBytes(last.call.name)
  /\ last.out = BytesVal(DiskBytes(last.call.name))

---------------------------------------------------------------------------
(* C2: loadSound(id) picks exactly one source in a fixed order: for one of *)
(* the seven intro ids it VOC-decodes the mapped INTRO3.MNI .. INTRO9.MNI, *)
(* even when SB_<ordinal+1>.MNI exists too; otherwise, if                  *)
(* hasFile("SB_<ordinal+1>.MNI") holds, it VOC-decodes that file;          *)
(* otherwise it returns the AdLib sound of the instrument package.  The    *)
(* synthesized source is never used when an earlier source applies.        *)
IntroTable ==
  [k \in 1 .. 7 |->
     <<"I","N","T","R","O">> \o <<(<<"3","4","5","6","7","8","9">>)[k]>>
       \o <<".","M","N","I">>]
\* SB_<id + 1>.MNI for the ids below 9
SbFile(id) ==
  <<"S","B","_">> \o <<(<<"1","2","3","4","5","6","7","8","9">>)[id + 1]>>
    \o <<".","M","N","I">>
IsIntroId(id) == id \in IntroSoundIds
VocOf(name) ==
  IF IsError(Resolved(name)) THEN Resolved(name)
  ELSE [kind |-> "voc", input |-> Resolved(name).bytes]
Synthesized(v) == v.kind = "audio" /\ v.source = "adlib"

C2_SoundSourceOrder ==
  Called("loadSound") =>
    LET id == last.call.id
    IN /\ IsIntroId(id) =>
            last.out = VocOf(IntroTable[id - NumGameSounds + 1])
       /\ ~IsIntroId(id) /\ id < 9 /\ (OnDisk(SbFile(id)) \/ InArchive(SbFile(id))) =>
            last.out = VocOf(SbFile(id))
       /\ ~IsIntroId(id) /\ id < 9 /\ ~(OnDisk(SbFile(id)) \/ InArchive(SbFile(id))) =>
            /\ Synthesized(last.out)
            /\ last.out.id = id
            /\ last.out.package = loader.mAdlibSoundsPackage
       /\ Synthesized(last.out) =>
            /\ ~IsIntroId(id)
            /\ id < 9 => ~(OnDisk(SbFile(id)) \/ InArchive(SbFile(id)))

\* an intro sound was decoded from its intro file although the digitized
\* file of its ordinal exists as well, with other bytes
C2_Witness ==
  /\ Called("loadSound")
  /\ IsIntroId(last.call.id) /\ last.call.id < 9
  /\ InArchive(SbFile(last.call.id))
  /\ VocOf(SbFile(last.call.id)) # VocOf(IntroTable[last.call.id - NumGameSounds + 1])
  /\ last.out = VocOf(IntroTable[last.call.id - NumGameSounds + 1])
  /\ last.out.kind = "voc"

---------------------------------------------------------------------------
(* The tileset claims.                                                     *)

ReplacementValid(name) == replacements[name] = "valid"
ReturnedTileSet == Called("loadCZone") /\ last.out.kind = "tileset"

\* the tile atlas decoded from a tileset file's pixel data
AtlasOf(bytes) ==
  [kind |-> "image", form |-> "atlas",
   solid |-> [kind |-> "image", form |-> "tiled", type |-> "Unmasked",
              data |-> SubSeq(bytes, AttributeBytesTotal + 1,
                              AttributeBytesTotal + NumSolidTiles * TileBytes)],
   masked |-> [kind |-> "image", form |-> "tiled", type |-> "Masked",
               data |-> SubSeq(bytes,
                               AttributeBytesTotal + NumSolidTiles * TileBytes + 1,
                               Len(bytes))]]

\* where tile i's attribute lies (tiles and offsets from 0): 2 bytes for each
\* solid tile, 2 + 8 bytes for each masked tile
AttributeOffset(i) ==
  IF i < NumSolidTiles THEN 2 * i
  ELSE 2 * NumSolidTiles + 10 * (i - NumSolidTiles)
\* the 16-bit little-endian value at an offset; g is what a read past the end
\* of the bytes yields
ValueAt(bytes, offset, g) ==
  (IF offset < Len(bytes) THEN bytes[offset + 1] ELSE g)
    + 256 * (IF offset + 1 < Len(bytes) THEN bytes[offset + 2] ELSE g)
AttributesOf(bytes, g) ==
  [i \in 1 .. NumTilesTotal |-> ValueAt(bytes, AttributeOffset(i - 1), g)]

(* C3 as claimed: loading CZONE3.MNI while an unpacked <gamePath>/CZONE3.MNI *)
(* and a decodable tileset3.png both exist, the image of the returned      *)
(* tileset is the one obtained from the exact-path file, not tileset3.png. *)
C3_ExactPathWins ==
  ( /\ ReturnedTileSet /\ last.call.name = NameCZone3
    /\ OnDisk(NameCZone3) /\ ReplacementValid(NameTileset3Png) )
  => /\ last.out.image # PngImage(NameTileset3Png)
     /\ last.out.image = AtlasOf(DiskBytes(NameCZone3))

(* C3 amended: in that case the pattern-based replacement wins for the     *)
(* pixels: the image of the returned tileset is the tileset3.png image,    *)
(* and tileset3.png was the one replacement file looked at.                *)
C3_ReplacementWins ==
  ( /\ ReturnedTileSet /\ last.call.name = NameCZone3
    /\ OnDisk(NameCZone3) /\ ReplacementValid(NameTileset3Png) )
  => /\ last.out.image = PngImage(NameTileset3Png)
     /\ last.consulted = {NameTileset3Png}

\* a tileset was returned for CZONE3.MNI with a well-formed unpacked file and a
\* decodable tileset3.png both there
C3_Witness ==
  /\ ReturnedTileSet /\ last.call.name = NameCZone3
  /\ OnDisk(NameCZone3) /\ Len(DiskBytes(NameCZone3)) = CZoneFileLen
  /\ ReplacementValid(NameTileset3Png)
  /\ last.out.image = PngImage(NameTileset3Png)
  /\ last.out.image # AtlasOf(DiskBytes(NameCZone3))

C5_AttributeTable ==
  ReturnedTileSet =>
    /\ Len(last.out.attributes) = NumTilesTotal
    /\ \E g \in GarbageBytes :
         last.out.attributes = AttributesOf(Resolved(last.call.name).bytes, g)

\* a tileset with decoded pixels was returned whose last masked tile's
\* attribute lies behind skipped bytes
C5_Witness ==
  /\ ReturnedTileSet
  /\ last.out.image.form = "atlas"
  /\ NumMaskedTiles > 0
  /\ Len(last.out.attributes) = NumTilesTotal
  /\ last.out.attributes[NumTilesTotal] =
       ValueAt(Resolved(last.call.name).bytes,
               2 * NumSolidTiles + 10 * (NumMaskedTiles - 1), 0)
  /\ last.out.attributes[NumTilesTotal] #
       ValueAt(Resolved(last.call.name).bytes, 2 * (NumTilesTotal - 1), 0)

---------------------------------------------------------------------------
(* The backdrop claim.                                                     *)

\* the digits of a name DROP<digits>.MNI (in any case), or <<>>
DropDigits(name) ==
  LET digits == SubSeq(name, 5, Len(name) - 4)
  IN IF /\ digits # <<>>
        /\ \A i \in DOMAIN digits : digits[i] \in Range(DigitChars)
        /\ ToUpper(name) = <<"D","R","O","P">> \o digits \o <<".","M","N","I">>
       THEN digits ELSE <<>>
BackdropCandidate(name) ==
  <<"b","a","c","k","d","r","o","p">> \o DropDigits(name) \o <<".","p","n","g">>
CandidateDecodes(name) ==
  /\ BackdropCandidate(name) \in ReplacementNames
  /\ replacements[BackdropCandidate(name)] = "valid"
\* the tiled fullscreen image of bytes, or why there is none
TiledImageOf(resolved) ==
  IF IsError(resolved) THEN resolved
  ELSE IF Len(resolved.bytes) % TileBytes # 0 THEN Err("FormatError")
  ELSE [kind |-> "image", form |-> "tiled", type |-> "Unmasked",
        data |-> resolved.bytes]

(* C6 as claimed: when the candidate backdrop<digits>.png is missing or    *)
(* fails to decode, the result of loadBackdrop(name) is the tiled          *)
(* fullscreen image of the archive's entry for name (stated for the names  *)
(* the archive holds).                                                     *)
C6_FallbackIsArchiveImage ==
  ( /\ Called("loadBackdrop") /\ DropDigits(last.call.name) # <<>>
    /\ ~CandidateDecodes(last.call.name) /\ InArchive(last.call.name) )
  => last.out = TiledImageOf(BytesVal(ArchiveBytes(last.call.name)))

(* C6 amended: loadBackdrop(name): if name matches DROP<digits>.MNI in any *)
(* case and backdrop<digits>.png exists and decodes, that image is         *)
(* returned; if the candidate is missing or fails to decode, the candidate *)
(* surfaces no error and the call behaves as loadTiledFullscreenImage:     *)
(* the result is the tiled fullscreen image of the bytes file(name)        *)
(* resolves (the unpacked override, else the archive entry), or that       *)
(* call's failure; for a name that does not match, no replacement file is  *)
(* consulted at all.                                                       *)
C6_BackdropReplacement ==
  Called("loadBackdrop") =>
    LET name == last.call.name
    IN /\ DropDigits(name) # <<>> /\ CandidateDecodes(name) =>
            last.out = [kind |-> "image", form |-> "png",
                        file |-> BackdropCandidate(name)]
       /\ DropDigits(name) # <<>> /\ ~CandidateDecodes(name) =>
            last.out = TiledImageOf(Resolved(name))
       /\ DropDigits(name) # <<>> => last.consulted = {BackdropCandidate(name)}
       /\ DropDigits(name) = <<>> =>
            /\ last.consulted = {}
            /\ last.out = TiledImageOf(Resolved(name))

\* a backdrop was asked for whose replacement file is there and is no image,
\* while an unpacked override exists: the override's tiled image came back
C6_Witness ==
  /\ Called("loadBackdrop") /\ last.call.name = NameDrop12
  /\ replacements[NameBackdrop12Png] = "malformed"
  /\ OnDisk(NameDrop12) /\ InArchive(NameDrop12)
  /\ last.out.kind = "image" /\ last.out.form = "tiled"
  /\ last.out.data = DiskBytes(NameDrop12)
  /\ last.consulted = {NameBackdrop12Png}

---------------------------------------------------------------------------
(* The byte resolution of the typed entry points.                          *)

DecodedAs(what, resolved) ==
  IF IsError(resolved) THEN resolved ELSE [kind |-> what, input |-> resolved.bytes]

\* the entry points that hand the bytes of a name to a decoder, movies aside
ByteResolution ==
  LET name == last.call.name
      resolved == Resolved(name)
      bytes == resolved.bytes
      id == last.call.id
  IN /\ Called("loadMusic") => last.out = DecodedAs("song", resolved)
     /\ Called("loadSoundByName") => last.out = DecodedAs("voc", resolved)
     /\ Called("loadScriptBundle") =>
          last.out = (IF IsError(resolved) THEN resolved
                      ELSE [kind |-> "scripts",
                            input |-> [kind |-> "text", input |-> bytes]])
     /\ Called("loadTiledFullscreenImage") => last.out = TiledImageOf(resolved)
     /\ Called("loadStandaloneFullscreenImage") =>
          /\ IsError(resolved) => last.out = resolved
          /\ last.out.kind = "image" =>
               /\ ~IsError(resolved)
               /\ last.out.data = SubSeq(bytes, 1, FULL_SCREEN_IMAGE_DATA_SIZE)
               /\ last.out.palette.input =
                    SubSeq(bytes, FULL_SCREEN_IMAGE_DATA_SIZE + 1,
                           FULL_SCREEN_IMAGE_DATA_SIZE + 48)
     /\ Called("loadBackdrop") /\ last.out # PngImage(BackdropCandidate(name)) =>
          last.out = TiledImageOf(resolved)
     /\ Called("loadCZone") =>
          /\ IsError(resolved) => last.out = resolved
          /\ last.out.kind = "tileset" =>
               /\ ~IsError(resolved)
               /\ \E g \in GarbageBytes : last.out.attributes = AttributesOf(bytes, g)
               /\ last.out.image.form = "atlas" => last.out.image = AtlasOf(bytes)
     /\ Called("loadSound") /\ last.out.kind = "voc" =>
          last.out = DecodedAs("voc", Resolved(IF IsIntroId(id)
                                                 THEN IntroTable[id - NumGameSounds + 1]
                                                 ELSE SbFile(id)))

(* C7 as claimed: every typed entry point obtains its input bytes through  *)
(* the byte resolution of file(name): the unpacked override if present,    *)
(* else the archive entry; a movie whose name exists only as an archive    *)
(* entry is loaded from the archive.                                       *)
C7_AllResolveLikeFile ==
  /\ ByteResolution
  /\ Called("loadMovie") => last.out = DecodedAs("movie", Resolved(last.call.name))

(* C7 amended: every typed entry point other than loadMovie obtains its    *)
(* input bytes through the byte resolution of file(name); loadMovie reads  *)
(* the unpacked file <gamePath>/<name> alone: a movie whose name exists    *)
(* only as an archive entry is not loaded, the call fails.                 *)
C7_AllButMovieResolveLikeFile ==
  /\ ByteResolution
  /\ Called("loadMovie") =>
       /\ OnDisk(last.call.name) =>
            last.out = [kind |-> "movie", input |-> DiskBytes(last.call.name)]
       /\ ~OnDisk(last.call.name) => IsError(last.out)

\* a movie was asked for whose name only the archive holds: the call failed
C7_Witness ==
  /\ Called("loadMovie")
  /\ ~OnDisk(last.call.name) /\ InArchive(last.call.name)
  /\ IsError(last.out)

---------------------------------------------------------------------------
(* C8: loadAntiPiracyImage decodes LCR.MNI as a leading 768-byte palette   *)
(* of 256 colours followed by one palette-index byte per pixel in linear   *)
(* order: for every i, output pixel i equals palette[byte at offset        *)
(* 768 + i], and the returned image of view port width x view port height  *)
(* holds exactly width * height pixels.                                    *)
LcrBytes == Resolved(<<"L","C","R",".","M","N","I">>).bytes
\* colour k (from 0) of the palette in the first 768 bytes
LcrColor(k) ==
  << (LcrBytes[3 * k + 1] * 255 + 31) \div 63,
     (LcrBytes[3 * k + 2] * 255 + 31) \div 63,
     (LcrBytes[3 * k + 3] * 255 + 31) \div 63 >>
C8_AntiPiracyImage ==
  (Called("loadAntiPiracyImage") /\ last.out.kind = "image") =>
    /\ last.out.width = ViewPortWidthPx /\ last.out.height = ViewPortHeightPx
    /\ \A i \in DOMAIN last.out.pixels :
         last.out.pixels[i] = LcrColor(LcrBytes[768 + i])
    /\ Len(last.out.pixels) = last.out.width * last.out.height

\* what holds of the pixels whatever the length of LCR.MNI
C8_PixelsFollowPalette ==
  (Called("loadAntiPiracyImage") /\ last.out.kind = "image") =>
    /\ Len(last.out.pixels) = Len(LcrBytes) - 768
    /\ \A i \in DOMAIN last.out.pixels :
         last.out.pixels[i] = LcrColor(LcrBytes[768 + i])

---------------------------------------------------------------------------
(* C9: the loader holds no cache and no load call changes its state: after *)
(* any sequence of load / file / hasFile calls the loader's state is       *)
(* unchanged, each call resolves its bytes afresh (a file(name) issued     *)
(* after an unpacked override was added or removed reflects the disk at    *)
(* the time of that call), and two identical calls with no external change *)
(* in between return equal results.                                        *)
C9_NoCacheEqualResults ==
  /\ [][loader' = loader]_vars
  /\ [](Called("file") => last.out = Resolved(last.call.name))
  /\ [][ ( /\ last # NoCall /\ last' # NoCall /\ last'.call = last.call
           /\ disk' = disk /\ replacements' = replacements )
         => last'.out = last.out ]_vars

---------------------------------------------------------------------------
(* C10: a Map starts with every cell of both layers at 0, and after any    *)
(* sequence of setTileAt calls every cell holds a tile index below         *)
(* numTilesTotal.  A setTileAt whose index is >= numTilesTotal, or whose   *)
(* layer, x or y is out of range (negative values included), fails with an *)
(* error and changes no cell; a successful setTileAt(layer, x, y, i)       *)
(* changes only that one cell, and tileAt(layer, x, y) then returns i.     *)
Cells == {<<layer, i>> : layer \in DOMAIN map.mLayers,
                         i \in 1 .. (map.mWidthInTiles * map.mHeightInTiles)}
CellOf(m, c) == m.mLayers[c[1]][c[2]]
InRange(c) ==
  /\ c.layer \in 0 .. 1
  /\ c.x \in 0 .. (map.mWidthInTiles - 1)
  /\ c.y \in 0 .. (map.mHeightInTiles - 1)
\* the cell of (layer, x, y): rows of mWidthInTiles cells
Target(c) == <<c.layer + 1, c.x + c.y * map.mWidthInTiles + 1>>

C10_TileGrid ==
  /\ [](mapLast.op = "Map" => \A c \in Cells : CellOf(map, c) = 0)
  /\ [](/\ Len(map.mLayers) = 2
        /\ \A layer \in DOMAIN map.mLayers :
             Len(map.mLayers[layer]) = map.mWidthInTiles * map.mHeightInTiles
        /\ \A c \in Cells : CellOf(map, c) \in 0 .. (NumTilesTotal - 1))
  /\ [][ mapLast'.op = "setTileAt" =>
           LET c == mapLast'
           IN IF c.index >= NumTilesTotal \/ ~InRange(c)
                THEN ~c.ok /\ map' = map
                ELSE /\ c.ok
                     /\ CellOf(map', Target(c)) = c.index
                     /\ \A other \in Cells \ {Target(c)} :
                          CellOf(map', other) = CellOf(map, other)
                     /\ map'.mWidthInTiles = map.mWidthInTiles
                     /\ map'.mHeightInTiles = map.mHeightInTiles ]_vars
  /\ []( (mapLast.op = "setTileAt" /\ mapLast.ok) =>
           /\ tileAt(map, mapLast.layer, mapLast.x, mapLast.y).ok
           /\ tileAt(map, mapLast.layer, mapLast.x, mapLast.y).value = mapLast.index )
  /\ []( (mapLast.op = "tileAt" /\ mapLast.ok) =>
           /\ InRange(mapLast)
           /\ mapLast.value = CellOf(map, Target(mapLast)) )

\* a setTileAt of the largest tile index has succeeded on a cell that is not
\* the first of its layer, and the cell holds the index
C10_Witness ==
  /\ mapLast.op = "setTileAt" /\ mapLast.ok
  /\ mapLast.index = NumTilesTotal - 1
  /\ mapLast.x > 0 /\ mapLast.layer = 1
  /\ CellOf(map, Target(mapLast)) = mapLast.index
  /\ \E c \in Cells \ {Target(mapLast)} : CellOf(map, c) = 0

---------------------------------------------------------------------------
(* C11: hasFile and file agree: for every name, with the disk and the      *)
(* archive unchanged between the two calls, hasFile(name) returns true     *)
(* exactly when file(name) does not fail with a not-found error, and       *)
(* hasFile itself never fails.  Hence the digitized-sound branch of        *)
(* loadSound(id), taken only when hasFile holds, never ends in a not-found *)
(* error.                                                                  *)
NotFound(v) == IsError(v) /\ v.err = "NotFoundError"
\* what file(name) returns, called in this state
FileNow(name) == file(loader, disk, name)
\* what hasFile(name) returns, called in this state
HasFileNow(name) == hasFile(loader, disk, name)

C11_HasFileAgreesWithFile ==
  /\ Idle => \A name \in Names : HasFileNow(name) = ~NotFound(FileNow(name))
  /\ Called("hasFile") =>
       /\ last.out.kind = "bool"
       /\ last.out.value = ~NotFound(FileNow(last.call.name))
       /\ last.out.value = ~NotFound(Resolved(last.call.name))
  /\ Called("file") => (NotFound(last.out) = ~HasFileNow(last.call.name))
  /\ ( /\ Called("loadSound") /\ ~IsIntroId(last.call.id)
       /\ HasFileNow(DigitizedSoundName(last.call.id)) )
     => /\ ~NotFound(last.out)
        /\ last.out = VocOf(DigitizedSoundName(last.call.id))

\* hasFile has returned true for a name that only the disk holds, in a case
\* the archive does not match, and file of that name returns the bytes
C11_Witness ==
  /\ Called("hasFile") /\ last.out = BoolVal(TRUE)
  /\ OnDisk(last.call.name) /\ ~InArchive(last.call.name)
  /\ FileNow(last.call.name) = BytesVal(DiskBytes(last.call.name))

=============================================================================
